---- MODULE Spec2Model ----
(***************************************************************************)
(* Model of src/unix/lwt_libev_stubs.c: the libev stubs of Lwt.            *)
(*                                                                         *)
(* The stubs are driven by one thread.  The control state is a stack of    *)
(* native frames: a frame of lwt_libev_loop / lwt_libev_loop_no_wait       *)
(* ("drive") or a frame of a watcher trampoline handle_io / handle_signal  *)
(* / handle_timer ("cb").  Each C statement of the drive functions and of  *)
(* LWT_UNIX_CHECK is one step.  While a trampoline frame is at pc          *)
(* "running" the OCaml callback is executing and may call any stub,        *)
(* including a drive function (a nested ev_loop).                          *)
(*                                                                         *)
(* libev and the OCaml runtime are external: they are modelled by what     *)
(* the calls made in the source do according to their documentation        *)
(* (ev.pod, caml/signals.h, caml/memory.h).                                *)
(***************************************************************************)
EXTENDS Integers, FiniteSets, Sequences, TLC

\* ---- bounds of the model ------------------------------------------------
MaxWatchers == 2   \* handles the caller may obtain in one run
MaxFd       == 2   \* file descriptors 1..MaxFd
MaxDelay    == 1   \* timer delays 1..MaxDelay
MaxTime     == 1   \* the wall clock runs 0..MaxTime
MaxDepth    == 2   \* drive calls in progress at once (1 = no nesting)
MaxCalls    == 1   \* invocation counts saturate here

Handles == 1..MaxWatchers
Fds     == 1..MaxFd
Delays  == 1..MaxDelay
Signums == {"SIGINT"}
IoKinds == {"EV_READ", "EV_WRITE"}

VARIABLES
  lwt_unix_main_loop,            \* FALSE = NULL, TRUE = the default loop
  lwt_unix_in_blocking_section,  \* the static int flag, 0 or 1
  caml_blocking,                 \* OCaml runtime: inside the blocking section
  bs_error,                      \* history: an enter while inside or a leave while outside
  watchers,                      \* handle -> the ev_io / ev_signal / ev_timer it wraps
  handles,                       \* caller's view of each handle: what it asked for, and
                                 \* whether the handle is fresh, live or stopped
  pending,                       \* libev: watchers with a pending event
  loop_done,                     \* libev: the unloop request of the loop
  mn_now,                        \* libev: the loop's cached time, ev_now()
  clock,                         \* the real time
  readyfds,                      \* <<fd, event>> pairs the OS reports ready
  gotsig,                        \* signals caught by libev and not yet fed
  stack,                         \* native frames, innermost last
  init_result                    \* outcome of the last lwt_libev_init

vars == << lwt_unix_main_loop, lwt_unix_in_blocking_section, caml_blocking,
           bs_error, watchers, handles, pending, loop_done, mn_now, clock,
           readyfds, gotsig, stack, init_result >>

\* ---- helpers --------------------------------------------------------------
Inc(n) == IF n < MaxCalls THEN n + 1 ELSE MaxCalls

\* A watcher descriptor (struct ev_io / ev_signal / ev_timer) and what the
\* runtime and libev hold about it:
\*   kind, sel  the event and the fd / signal / delay it was initialised with
\*   alloc      the descriptor is allocated (lwt_unix_new .. free)
\*   root       registrations of &watcher->data as a generational global root
\*   active     the watcher is started in the loop (ev_is_active)
\*   at         timers: the loop time at which the timer expires
\*   reg, calls history: the real time of the init call, the invocations so far
NoWatcher ==
  [ kind |-> "none", sel |-> 0, alloc |-> FALSE, root |-> 0,
    active |-> FALSE, at |-> 0, reg |-> 0, calls |-> 0 ]

Frame(t, pc, w, nowait) == [ t |-> t, pc |-> pc, w |-> w, nowait |-> nowait ]

Top == stack[Len(stack)]

SetTopPc(pc) == [ stack EXCEPT ![Len(stack)].pc = pc ]

Pop == SubSeq(stack, 1, Len(stack) - 1)

DriveDepth == Cardinality({ i \in 1..Len(stack) : stack[i].t = "drive" })

\* The caller of a stub is the scheduler (no native frame) or a running callback.
CanCall ==
  \/ stack = << >>
  \/ stack # << >> /\ Top.t = "cb" /\ Top.pc = "running"

IsIo(w) == w.kind \in IoKinds

Fresh == [ state |-> "fresh", kind |-> "none", sel |-> 0 ]

Live(h) == handles[h].state = "live"

\* "unqueued": stopped while an event of the watcher was queued for dispatch.
Stopped(h) == handles[h].state \in { "stopped", "unqueued" }

\* The handle the next init call returns (handles are handed out in order).
NewHandle == CHOOSE h \in Handles :
               /\ handles[h] = Fresh
               /\ \A g \in Handles : g < h => handles[g] # Fresh

HasFresh == \E h \in Handles : handles[h] = Fresh

\* ---- the OCaml runtime and libev calls made by the stubs --------------------
lwt_unix_new(kind, sel) ==
  [ NoWatcher EXCEPT !.kind = kind, !.sel = sel, !.alloc = TRUE ]

caml_register_generational_global_root(w) == [ w EXCEPT !.root = @ + 1 ]

caml_remove_generational_global_root(w) ==
  [ w EXCEPT !.root = IF @ > 0 THEN @ - 1 ELSE 0 ]

\* free: the descriptor is released; its former contents are gone.
\* The registration as a root and the membership of the loop are not part of it.
free(w) == [ NoWatcher EXCEPT !.root = w.root, !.active = w.active ]

ev_start(w) == [ w EXCEPT !.active = TRUE ]

\* ev_timer_start: the timeout is relative to the loop's cached time ev_now().
ev_timer_start(w, now) == [ w EXCEPT !.active = TRUE, !.at = now + w.sel ]

\* ev_io_stop / ev_signal_stop / ev_timer_stop: removes this one watcher.
ev_stop(ws, h) == [ ws EXCEPT ![h].active = FALSE ]

\* ---- initial state ----------------------------------------------------------
Init ==
  /\ lwt_unix_main_loop = FALSE
  /\ lwt_unix_in_blocking_section = 0
  /\ caml_blocking = FALSE
  /\ bs_error = FALSE
  /\ watchers = [ h \in Handles |-> NoWatcher ]
  /\ handles = [ h \in Handles |-> Fresh ]
  /\ pending = {}
  /\ loop_done = "EVUNLOOP_CANCEL"
  /\ mn_now = 0
  /\ clock = 0
  /\ readyfds = {}
  /\ gotsig = {}
  /\ stack = << >>
  /\ init_result = "none"

\* ---- environment ------------------------------------------------------------
Tick ==
  /\ clock < MaxTime
  /\ clock' = clock + 1
  /\ UNCHANGED << lwt_unix_main_loop, lwt_unix_in_blocking_section, caml_blocking,
                  bs_error, watchers, handles, pending, loop_done, mn_now,
                  readyfds, gotsig, stack, init_result >>

\* Readiness is observed by the poll only through the io watchers started on
\* the fd, so only the readiness of a watched fd is tracked.
WatchedIn(ws, fd, event) ==
  \E h \in Handles : /\ ws[h].active
                      /\ ws[h].kind = event
                      /\ ws[h].sel = fd

Watched(fd, event) == WatchedIn(watchers, fd, event)

Tracked(ws, ready) == { p \in ready : WatchedIn(ws, p[1], p[2]) }

FdBecomesReady(fd, event) ==
  /\ Watched(fd, event)
  /\ << fd, event >> \notin readyfds
  /\ readyfds' = readyfds \cup { << fd, event >> }
  /\ UNCHANGED << lwt_unix_main_loop, lwt_unix_in_blocking_section, caml_blocking,
                  bs_error, watchers, handles, pending, loop_done, mn_now,
                  clock, gotsig, stack, init_result >>

FdBecomesIdle(fd, event) ==
  /\ << fd, event >> \in readyfds
  /\ readyfds' = readyfds \ { << fd, event >> }
  /\ UNCHANGED << lwt_unix_main_loop, lwt_unix_in_blocking_section, caml_blocking,
                  bs_error, watchers, handles, pending, loop_done, mn_now,
                  clock, gotsig, stack, init_result >>

\* libev installs its handler for a signal only while a watcher for it is started.
SignalCaught(signum) ==
  /\ signum \notin gotsig
  /\ \E h \in Handles : /\ watchers[h].kind = "signal"
                        /\ watchers[h].active
                        /\ watchers[h].sel = signum
  /\ gotsig' = gotsig \cup { signum }
  /\ UNCHANGED << lwt_unix_main_loop, lwt_unix_in_blocking_section, caml_blocking,
                  bs_error, watchers, handles, pending, loop_done, mn_now,
                  clock, readyfds, stack, init_result >>

\* ---- initialisation (lines 45-61) ---------------------------------------------
\* created: whether ev_default_loop returns a loop.
lwt_libev_init_unguarded(created) ==
  /\ CanCall
  /\ lwt_unix_main_loop' = created
  /\ mn_now' = IF created THEN clock ELSE mn_now
  /\ init_result' = IF created THEN "unit" ELSE "Failure"
  /\ UNCHANGED << lwt_unix_in_blocking_section, caml_blocking, bs_error, watchers,
                  handles, pending, loop_done, clock, readyfds, gotsig, stack >>

lwt_libev_init_partial(created) ==
  /\ CanCall
  /\ IF lwt_unix_main_loop
       THEN /\ init_result' = "unit"
            /\ UNCHANGED << lwt_unix_main_loop, mn_now >>
       ELSE /\ lwt_unix_main_loop' = TRUE
            /\ mn_now' = IF created THEN clock ELSE mn_now
            /\ init_result' = IF created THEN "unit" ELSE "Failure"
  /\ UNCHANGED << lwt_unix_in_blocking_section, caml_blocking, bs_error, watchers,
                  handles, pending, loop_done, clock, readyfds, gotsig, stack >>

lwt_libev_init(created) ==
  /\ CanCall
  /\ IF lwt_unix_main_loop
       THEN /\ init_result' = "unit"
            /\ UNCHANGED << lwt_unix_main_loop, mn_now >>
       ELSE /\ lwt_unix_main_loop' = created
            /\ mn_now' = IF created THEN clock ELSE mn_now
            /\ init_result' = IF created THEN "unit" ELSE "Failure"
  /\ UNCHANGED << lwt_unix_in_blocking_section, caml_blocking, bs_error, watchers,
                  handles, pending, loop_done, clock, readyfds, gotsig, stack >>

\* Destroying the loop with watchers registered or from inside a round is
\* outside the caller's contract; the scheduler calls it with none left.
lwt_libev_stop ==
  /\ stack = << >>
  /\ \A h \in Handles : ~watchers[h].alloc
  /\ IF lwt_unix_main_loop
       THEN /\ lwt_unix_main_loop' = FALSE
            /\ pending' = {}
            /\ gotsig' = {}
            /\ loop_done' = "EVUNLOOP_CANCEL"
       ELSE UNCHANGED << lwt_unix_main_loop, pending, gotsig, loop_done >>
  /\ UNCHANGED << lwt_unix_in_blocking_section, caml_blocking, bs_error, watchers,
                  handles, mn_now, clock, readyfds, stack, init_result >>

\* ---- watchers: init (lines 138-164, 185-201, 222-238) ---------------------------
io_init(fd, event) ==
  ev_start(caml_register_generational_global_root(lwt_unix_new(event, fd)))

signal_init(signum) ==
  ev_start(caml_register_generational_global_root(lwt_unix_new("signal", signum)))

timer_init(delay, now) ==
  ev_timer_start(caml_register_generational_global_root(lwt_unix_new("timer", delay)), now)

Register(w) ==
  /\ CanCall
  /\ lwt_unix_main_loop
  /\ HasFresh
  /\ watchers' = [ watchers EXCEPT ![NewHandle] = [ w EXCEPT !.reg = clock ] ]
  /\ handles' = [ handles EXCEPT ![NewHandle] =
                                 [ state |-> "live", kind |-> w.kind, sel |-> w.sel ] ]
  /\ UNCHANGED << lwt_unix_main_loop, lwt_unix_in_blocking_section, caml_blocking,
                  bs_error, pending, loop_done, mn_now, clock, readyfds, gotsig,
                  stack, init_result >>

lwt_libev_readable_init(fd) == Register(io_init(fd, "EV_READ"))

lwt_libev_writable_init(fd) == Register(io_init(fd, "EV_WRITE"))

lwt_libev_signal_init(signum) == Register(signal_init(signum))

lwt_libev_timer_init(delay) == Register(timer_init(delay, mn_now))

\* ---- watchers: stop (lines 166-173, 203-210, 240-247) ---------------------------
io_stop_no_free(ws, h) ==
  LET unrooted == [ ws EXCEPT ![h] = caml_remove_generational_global_root(@) ]
  IN  ev_stop(unrooted, h)

io_stop_by_fd(ws, h) ==
  [ g \in Handles |->
      IF IsIo(ws[g]) /\ ws[g].sel = ws[h].sel
        THEN free([ caml_remove_generational_global_root(ws[g]) EXCEPT !.active = FALSE ])
        ELSE ws[g] ]

io_stop(ws, h) ==
  LET unrooted == [ ws EXCEPT ![h] = caml_remove_generational_global_root(@) ]
      stopped  == ev_stop(unrooted, h)
  IN  [ stopped EXCEPT ![h] = free(@) ]

signal_stop_no_unroot(ws, h) ==
  LET stopped == ev_stop(ws, h)
  IN  [ stopped EXCEPT ![h] = free(@) ]

signal_stop(ws, h) ==
  LET unrooted == [ ws EXCEPT ![h] = caml_remove_generational_global_root(@) ]
      stopped  == ev_stop(unrooted, h)
  IN  [ stopped EXCEPT ![h] = free(@) ]

timer_stop_no_ev_stop(ws, h) ==
  LET unrooted == [ ws EXCEPT ![h] = caml_remove_generational_global_root(@) ]
  IN  [ unrooted EXCEPT ![h] = free(@) ]

timer_stop(ws, h) ==
  LET unrooted == [ ws EXCEPT ![h] = caml_remove_generational_global_root(@) ]
      stopped  == ev_stop(unrooted, h)
  IN  [ stopped EXCEPT ![h] = free(@) ]

Unregister_keeps_pending(h, ws) ==
  /\ CanCall
  /\ Live(h)
  /\ watchers' = ws
  /\ pending' = pending
  /\ handles' = [ handles EXCEPT
                    ![h].state = IF h \in pending THEN "unqueued" ELSE "stopped" ]
  /\ readyfds' = Tracked(ws, readyfds)
  /\ UNCHANGED << lwt_unix_main_loop, lwt_unix_in_blocking_section, caml_blocking,
                  bs_error, loop_done, mn_now, clock, gotsig, stack, init_result >>

\* ev_*_stop also clears the watcher's pending event (clear_pending).
Unregister(h, ws) ==
  /\ CanCall
  /\ Live(h)
  /\ watchers' = ws
  /\ pending' = pending \ { h }
  /\ handles' = [ handles EXCEPT
                    ![h].state = IF h \in pending THEN "unqueued" ELSE "stopped" ]
  /\ readyfds' = Tracked(ws, readyfds)
  /\ UNCHANGED << lwt_unix_main_loop, lwt_unix_in_blocking_section, caml_blocking,
                  bs_error, loop_done, mn_now, clock, gotsig, stack, init_result >>

lwt_libev_io_stop(h) ==
  /\ handles[h].kind \in IoKinds
  /\ Unregister(h, io_stop(watchers, h))

lwt_libev_signal_stop(h) ==
  /\ handles[h].kind = "signal"
  /\ Unregister(h, signal_stop(watchers, h))

lwt_libev_timer_stop(h) ==
  /\ handles[h].kind = "timer"
  /\ Unregister(h, timer_stop(watchers, h))


\* ---- main loop (lines 67-97) ----------------------------------------------------
\* Control flow of the drive functions and of the trampolines, statement by
\* statement.  A drive frame runs  enter -> setflag -> ev_loop -> (the round)
\* -> check -> ret ; a trampoline frame runs  check -> call -> running.
DriveEntryNoEnter == "setflag"

\* line 77 / 86: the first statement of a drive function.
DriveEntry == "enter"

AfterEnterNoFlag == "ev_loop"

AfterEnter == "setflag"

AfterSetFlag == "ev_loop"

AfterEvLoopNoCheck == "ret"

AfterEvLoop == "check"

HandlerEntryNoCheck == "call"

HandlerEntry == "check"

CheckAlways(flag) == TRUE

\* LWT_UNIX_CHECK: the test of line 70.
CheckTaken(flag) == flag # 0

AfterCheck(frame) == IF frame.t = "drive" THEN "ret" ELSE "call"

Call(nowait) ==
  /\ CanCall
  /\ lwt_unix_main_loop
  /\ DriveDepth < MaxDepth
  /\ stack' = Append(stack, Frame("drive", DriveEntry, 0, nowait))
  /\ UNCHANGED << lwt_unix_main_loop, lwt_unix_in_blocking_section, caml_blocking,
                  bs_error, watchers, handles, pending, loop_done, mn_now, clock,
                  readyfds, gotsig, init_result >>

lwt_libev_loop == Call(FALSE)

lwt_libev_loop_no_wait == Call(TRUE)

\* line 77 / 86
caml_enter_blocking_section ==
  /\ stack # << >>
  /\ Top.t = "drive" /\ Top.pc = "enter"
  /\ bs_error' = (bs_error \/ caml_blocking)
  /\ caml_blocking' = TRUE
  /\ stack' = SetTopPc(AfterEnter)
  /\ UNCHANGED << lwt_unix_main_loop, lwt_unix_in_blocking_section, watchers,
                  handles, pending, loop_done, mn_now, clock, readyfds, gotsig,
                  init_result >>

\* line 78 / 87
SetFlag ==
  /\ stack # << >>
  /\ Top.t = "drive" /\ Top.pc = "setflag"
  /\ lwt_unix_in_blocking_section' = 1
  /\ stack' = SetTopPc(AfterSetFlag)
  /\ UNCHANGED << lwt_unix_main_loop, caml_blocking, bs_error, watchers, handles,
                  pending, loop_done, mn_now, clock, readyfds, gotsig, init_result >>

ev_loop_keeps_unloop ==
  /\ stack # << >>
  /\ Top.t = "drive" /\ Top.pc = "ev_loop"
  /\ stack' = SetTopPc("pending0")
  /\ UNCHANGED << lwt_unix_main_loop, lwt_unix_in_blocking_section, caml_blocking,
                  bs_error, watchers, handles, pending, loop_done, mn_now, clock,
                  readyfds, gotsig, init_result >>

\* line 79 / 88: ev_loop is entered; it clears the unloop request and first
\* invokes what is still pending (the case of a recursive ev_loop).
ev_loop ==
  /\ stack # << >>
  /\ Top.t = "drive" /\ Top.pc = "ev_loop"
  /\ loop_done' = "EVUNLOOP_CANCEL"
  /\ stack' = SetTopPc("pending0")
  /\ UNCHANGED << lwt_unix_main_loop, lwt_unix_in_blocking_section, caml_blocking,
                  bs_error, watchers, handles, pending, mn_now, clock, readyfds,
                  gotsig, init_result >>

\* The events one poll of the backend reports at time now.
FdEvents(ws) ==
  { h \in Handles : /\ IsIo(ws[h]) /\ ws[h].active
                    /\ << ws[h].sel, ws[h].kind >> \in readyfds }

SignalEvents(ws) ==
  { h \in Handles : /\ ws[h].kind = "signal" /\ ws[h].active
                    /\ ws[h].sel \in gotsig }

TimerEvents(ws, now) ==
  { h \in Handles : /\ ws[h].kind = "timer" /\ ws[h].active
                    /\ ws[h].at <= now }

Ready(ws, now) == FdEvents(ws) \cup SignalEvents(ws) \cup TimerEvents(ws, now)

activecnt(ws) == Cardinality({ h \in Handles : ws[h].active })

\* timers_reify: an expired timer without repeat is stopped before its callback.
timers_reify(ws, now) ==
  [ h \in Handles |-> IF h \in TimerEvents(ws, now)
                        THEN [ ws[h] EXCEPT !.active = FALSE ]
                        ELSE ws[h] ]

ev_loop_poll_wait ==
  /\ stack # << >>
  /\ Top.t = "drive" /\ Top.pc = "pending0"
  /\ pending = {}
  /\ \/ activecnt(watchers) = 0
     \/ Ready(watchers, clock) # {}
  /\ mn_now' = clock
  /\ pending' = Ready(watchers, clock)
  /\ watchers' = timers_reify(watchers, clock)
  /\ gotsig' = {}
  /\ stack' = SetTopPc("pending1")
  /\ UNCHANGED << lwt_unix_main_loop, lwt_unix_in_blocking_section, caml_blocking,
                  bs_error, handles, loop_done, clock, readyfds, init_result >>

\* The poll of the round: update the loop time, wait (unless EVLOOP_NONBLOCK or
\* nothing is active) until an event is ready, queue the ready events.
ev_loop_poll ==
  /\ stack # << >>
  /\ Top.t = "drive" /\ Top.pc = "pending0"
  /\ pending = {}
  /\ \/ Top.nowait
     \/ activecnt(watchers) = 0
     \/ Ready(watchers, clock) # {}
  /\ mn_now' = clock
  /\ pending' = Ready(watchers, clock)
  /\ watchers' = timers_reify(watchers, clock)
  /\ gotsig' = {}
  /\ stack' = SetTopPc("pending1")
  /\ UNCHANGED << lwt_unix_main_loop, lwt_unix_in_blocking_section, caml_blocking,
                  bs_error, handles, loop_done, clock, readyfds, init_result >>

\* ev_invoke_pending: the multiplexer calls the trampoline of a pending watcher.
ev_invoke_pending(h) ==
  /\ stack # << >>
  /\ Top.t = "drive" /\ Top.pc \in { "pending0", "pending1" }
  /\ h \in pending
  /\ pending' = pending \ { h }
  /\ stack' = Append(stack, Frame("cb", HandlerEntry, h, FALSE))
  /\ UNCHANGED << lwt_unix_main_loop, lwt_unix_in_blocking_section, caml_blocking,
                  bs_error, watchers, handles, loop_done, mn_now, clock, readyfds,
                  gotsig, init_result >>

\* ev_loop returns: EVLOOP_ONESHOT ends the loop after one round.
ev_loop_return ==
  /\ stack # << >>
  /\ Top.t = "drive" /\ Top.pc = "pending1"
  /\ pending = {}
  /\ loop_done' = "EVUNLOOP_CANCEL"
  /\ stack' = SetTopPc(AfterEvLoop)
  /\ UNCHANGED << lwt_unix_main_loop, lwt_unix_in_blocking_section, caml_blocking,
                  bs_error, watchers, handles, pending, mn_now, clock, readyfds,
                  gotsig, init_result >>

\* LWT_UNIX_CHECK, lines 69-73, in a drive function or in a trampoline.
LWT_UNIX_CHECK_test ==
  /\ stack # << >>
  /\ Top.pc = "check"
  /\ stack' = SetTopPc(IF CheckTaken(lwt_unix_in_blocking_section)
                         THEN "clear" ELSE AfterCheck(Top))
  /\ UNCHANGED << lwt_unix_main_loop, lwt_unix_in_blocking_section, caml_blocking,
                  bs_error, watchers, handles, pending, loop_done, mn_now, clock,
                  readyfds, gotsig, init_result >>

LWT_UNIX_CHECK_clear ==
  /\ stack # << >>
  /\ Top.pc = "clear"
  /\ lwt_unix_in_blocking_section' = 0
  /\ stack' = SetTopPc("leave")
  /\ UNCHANGED << lwt_unix_main_loop, caml_blocking, bs_error, watchers, handles,
                  pending, loop_done, mn_now, clock, readyfds, gotsig, init_result >>

caml_leave_blocking_section ==
  /\ stack # << >>
  /\ Top.pc = "leave"
  /\ bs_error' = (bs_error \/ ~caml_blocking)
  /\ caml_blocking' = FALSE
  /\ stack' = SetTopPc(AfterCheck(Top))
  /\ UNCHANGED << lwt_unix_main_loop, lwt_unix_in_blocking_section, watchers,
                  handles, pending, loop_done, mn_now, clock, readyfds, gotsig,
                  init_result >>

\* line 81 / 90
Return ==
  /\ stack # << >>
  /\ Top.t = "drive" /\ Top.pc = "ret"
  /\ stack' = Pop
  /\ UNCHANGED << lwt_unix_main_loop, lwt_unix_in_blocking_section, caml_blocking,
                  bs_error, watchers, handles, pending, loop_done, mn_now, clock,
                  readyfds, gotsig, init_result >>

lwt_libev_unloop_drops_pending ==
  /\ CanCall
  /\ lwt_unix_main_loop
  /\ loop_done' = "EVUNLOOP_ONE"
  /\ pending' = {}
  /\ UNCHANGED << lwt_unix_main_loop, lwt_unix_in_blocking_section, caml_blocking,
                  bs_error, watchers, handles, mn_now, clock, readyfds,
                  gotsig, stack, init_result >>

\* lines 93-97
lwt_libev_unloop ==
  /\ CanCall
  /\ lwt_unix_main_loop
  /\ loop_done' = "EVUNLOOP_ONE"
  /\ UNCHANGED << lwt_unix_main_loop, lwt_unix_in_blocking_section, caml_blocking,
                  bs_error, watchers, handles, pending, mn_now, clock, readyfds,
                  gotsig, stack, init_result >>

\* ---- trampolines (lines 132-136, 179-183, 216-220) -------------------------------
\* caml_callback((value)watcher->data, Val_unit): the callback starts to run.
caml_callback(kinds) ==
  /\ stack # << >>
  /\ Top.t = "cb" /\ Top.pc = "call"
  /\ watchers[Top.w].kind \in kinds
  /\ watchers' = [ watchers EXCEPT ![Top.w].calls = Inc(@) ]
  /\ stack' = SetTopPc("running")
  /\ UNCHANGED << lwt_unix_main_loop, lwt_unix_in_blocking_section, caml_blocking,
                  bs_error, handles, pending, loop_done, mn_now, clock, readyfds,
                  gotsig, init_result >>

handle_io_oneshot ==
  /\ stack # << >>
  /\ Top.t = "cb" /\ Top.pc = "call"
  /\ watchers[Top.w].kind \in IoKinds
  /\ watchers' = [ watchers EXCEPT ![Top.w].calls = Inc(@), ![Top.w].active = FALSE ]
  /\ stack' = SetTopPc("running")
  /\ UNCHANGED << lwt_unix_main_loop, lwt_unix_in_blocking_section, caml_blocking,
                  bs_error, handles, pending, loop_done, mn_now, clock, readyfds,
                  gotsig, init_result >>

handle_io == caml_callback(IoKinds)

handle_signal == caml_callback({ "signal" })

handle_timer == caml_callback({ "timer" })

\* The callback returns to the trampoline, which returns to the multiplexer.
CallbackReturn ==
  /\ stack # << >>
  /\ Top.t = "cb" /\ Top.pc = "running"
  /\ stack' = Pop
  /\ UNCHANGED << lwt_unix_main_loop, lwt_unix_in_blocking_section, caml_blocking,
                  bs_error, watchers, handles, pending, loop_done, mn_now, clock,
                  readyfds, gotsig, init_result >>

\* ---- specification -----------------------------------------------------------------
Next ==
  \/ Tick
  \/ \E fd \in Fds, event \in IoKinds : FdBecomesReady(fd, event)
  \/ \E fd \in Fds, event \in IoKinds : FdBecomesIdle(fd, event)
  \/ \E signum \in Signums : SignalCaught(signum)
  \/ \E created \in BOOLEAN : lwt_libev_init(created)
  \/ lwt_libev_stop
  \/ \E fd \in Fds : lwt_libev_readable_init(fd)
  \/ \E fd \in Fds : lwt_libev_writable_init(fd)
  \/ \E signum \in Signums : lwt_libev_signal_init(signum)
  \/ \E delay \in Delays : lwt_libev_timer_init(delay)
  \/ \E h \in Handles : lwt_libev_io_stop(h)
  \/ \E h \in Handles : lwt_libev_signal_stop(h)
  \/ \E h \in Handles : lwt_libev_timer_stop(h)
  \/ lwt_libev_loop
  \/ lwt_libev_loop_no_wait
  \/ lwt_libev_unloop
  \/ caml_enter_blocking_section
  \/ SetFlag
  \/ ev_loop
  \/ ev_loop_poll
  \/ \E h \in Handles : ev_invoke_pending(h)
  \/ ev_loop_return
  \/ LWT_UNIX_CHECK_test
  \/ LWT_UNIX_CHECK_clear
  \/ caml_leave_blocking_section
  \/ Return
  \/ handle_io
  \/ handle_signal
  \/ handle_timer
  \/ CallbackReturn

Spec == Init /\ [][Next]_vars


\* ---- properties ------------------------------------------------------------------
Running == stack # << >> /\ Top.t = "cb" /\ Top.pc = "running"

AtPc(t, pcs) == stack # << >> /\ Top.t = t /\ Top.pc \in pcs

\* C1: while a pinned callback is executing (the trampoline is at its
\* caml_callback, or the callback has control), the flag is false and the
\* runtime is outside its blocking section.  A callback suspended in a drive
\* call it made is not executing: that drive call is.
C1_CallbackOutsideBlockingSection ==
  AtPc("cb", { "call", "running" }) =>
    /\ lwt_unix_in_blocking_section = 0
    /\ ~caml_blocking

\* C1 witness: a callback runs after another watcher's callback already ran and
\* while a further event of the same round is still pending.
C1_Witness ==
  /\ Running
  /\ Len(stack) = 2
  /\ pending # {}
  /\ \E g \in Handles : g # Top.w /\ watchers[g].calls > 0

\* C2: at the statement of lwt_libev_loop that calls ev_loop the flag is 1, and
\* the only step that raises the flag is the assignment of a drive function
\* that immediately precedes that call.
C2_FlagSetOnlyBeforeWait ==
  /\ [](AtPc("drive", { "ev_loop" }) => lwt_unix_in_blocking_section = 1)
  /\ [][ (lwt_unix_in_blocking_section = 0 /\ lwt_unix_in_blocking_section' = 1)
           => /\ AtPc("drive", { "setflag" })
              /\ stack' = SetTopPc("ev_loop") ]_vars

\* C2 witness: lwt_libev_loop (the blocking drive) is about to call ev_loop.
C2_Witness ==
  /\ AtPc("drive", { "ev_loop" })
  /\ ~Top.nowait
  /\ lwt_unix_in_blocking_section = 1

\* C3: a drive call returns with the flag 0, and the flag is 0 whenever no drive
\* call is in progress.
C3_DriveReturnsWithFlagClear ==
  /\ AtPc("drive", { "ret" }) => lwt_unix_in_blocking_section = 0
  /\ DriveDepth = 0 => lwt_unix_in_blocking_section = 0

\* C3 witness: a drive call returns from a round that dispatched no callback.
C3_Witness ==
  /\ AtPc("drive", { "ret" })
  /\ Len(stack) = 1
  /\ \A h \in Handles : watchers[h].calls = 0
  /\ \E h \in Handles : watchers[h].active

\* C4: caml_enter_blocking_section and caml_leave_blocking_section alternate,
\* starting with enter; the leave has happened when a callback runs and when a
\* drive call returns; LWT_UNIX_CHECK with the flag 0 performs no leave.
C4_EnterLeaveAlternate ==
  /\ [](~bs_error)
  /\ []((Running \/ AtPc("drive", { "ret" })) => ~caml_blocking)
  /\ [][ (stack # << >> /\ Top.pc = "check" /\ lwt_unix_in_blocking_section = 0)
           => /\ caml_blocking' = caml_blocking
              /\ lwt_unix_in_blocking_section' = 0
              /\ stack' \in { stack, SetTopPc(AfterCheck(Top)) } ]_vars

\* C4 witness: a drive call made from inside a dispatched callback is at its own
\* leave, after a round in which no trampoline left the blocking section.
C4_Witness ==
  /\ Len(stack) = 3
  /\ AtPc("drive", { "leave" })
  /\ stack[2].t = "cb" /\ stack[2].pc = "running"
  /\ caml_blocking
  /\ ~bs_error

IoLive == { h \in Handles : Live(h) /\ handles[h].kind \in IoKinds }

\* C5: the io watches active in the loop and the io descriptors allocated are
\* as many as the watch_readable / watch_writable handles not yet stopped.
C5_IoWatchesMatchLiveHandles ==
  /\ Cardinality({ h \in Handles : IsIo(watchers[h]) /\ watchers[h].active })
       = Cardinality(IoLive)
  /\ Cardinality({ h \in Handles : watchers[h].alloc /\ IsIo(watchers[h]) })
       = Cardinality(IoLive)
  /\ \A h \in Handles : Stopped(h) => ~watchers[h].alloc /\ ~watchers[h].active

\* C5 witness: two io watches on distinct fds were made; one has been stopped.
C5_Witness ==
  \E h, g \in Handles :
    /\ Stopped(h) /\ handles[h].kind \in IoKinds
    /\ Live(g) /\ handles[g].kind \in IoKinds
    /\ handles[h].sel # handles[g].sel
    /\ watchers[g].active

\* C6: a handle that was returned by init and is not stopped has exactly one
\* pin, any other handle has none, whatever the number of invocations.
C6_OnePinPerLiveHandle ==
  \A h \in Handles : watchers[h].root = IF Live(h) THEN 1 ELSE 0

\* C6 witness: a watcher that was invoked before is about to be invoked again
\* and is pinned once, next to a stopped one that is not pinned.
C6_Witness ==
  /\ AtPc("cb", { "call" })
  /\ Live(Top.w) /\ watchers[Top.w].calls >= 1 /\ watchers[Top.w].root = 1
  /\ \E g \in Handles : Stopped(g) /\ watchers[g].root = 0

\* C7 as stated: a callback is pinned if and only if its watch is active.
C7_PinnedIffActive ==
  \A h \in Handles : (watchers[h].root > 0) <=> watchers[h].active

\* C7 amended: a callback is pinned exactly as long as its descriptor is
\* allocated (from init to stop); every active watch is pinned; a pinned watch
\* that is not active is a one-shot timer that has expired.
C7_PinnedIffAllocated ==
  \A h \in Handles :
    /\ (watchers[h].root = 1) <=> watchers[h].alloc
    /\ watchers[h].root \in { 0, 1 }
    /\ watchers[h].active => watchers[h].root = 1
    /\ (watchers[h].root = 1 /\ ~watchers[h].active)
         => (watchers[h].kind = "timer" /\ watchers[h].at <= mn_now)

\* C7 witness: a one-shot timer has fired and its callback returned: the timer
\* is no longer active in the loop, and is still pinned.
C7_Witness ==
  \E h \in Handles :
    /\ watchers[h].kind = "timer"
    /\ watchers[h].calls = 1
    /\ ~watchers[h].active
    /\ watchers[h].root = 1
    /\ stack = << >>

\* C8 as stated: a timer's callback is invoked at most once, and not before its
\* delay has elapsed since the watch_timer call.
C8_TimerOnceNotEarly ==
  /\ \A i \in 1..Len(stack) :
       (stack[i].t = "cb" /\ stack[i].pc = "call"
          /\ watchers[stack[i].w].kind = "timer")
       => watchers[stack[i].w].calls = 0
  /\ \A i \in 1..Len(stack) :
       (stack[i].t = "cb" /\ stack[i].pc = "running"
          /\ watchers[stack[i].w].kind = "timer")
       => clock - watchers[stack[i].w].reg >= watchers[stack[i].w].sel

Persistent(h) == Live(h) /\ handles[h].kind \in IoKinds \cup { "signal" }

PollStep == AtPc("drive", { "pending0" }) /\ stack' = SetTopPc("pending1")

\* C9: a readable, writable or signal watch that is active stays active until
\* its stop call, whatever is dispatched; every poll queues it when it is
\* ready, however often it was invoked before; and a round does not end with
\* an event still queued.
C9_PersistentWatchers ==
  /\ [][ \A h \in Handles :
           (Persistent(h) /\ watchers[h].active /\ ~Stopped(h)')
             => watchers'[h].active ]_vars
  /\ [][ PollStep =>
           \A h \in Handles :
             (Persistent(h) /\ h \in Ready(watchers, clock)) => h \in pending' ]_vars
  /\ [](AtPc("drive", { "check", "clear", "leave", "ret" }) => pending = {})

\* C9 witness: a persistent watcher that was invoked before is dispatched again.
C9_Witness ==
  /\ AtPc("cb", { "call" })
  /\ Persistent(Top.w)
  /\ watchers[Top.w].calls >= 1
  /\ watchers[Top.w].active

Sibling(h, g) ==
  /\ g # h
  /\ handles[g].kind \in IoKinds /\ handles[h].kind \in IoKinds
  /\ handles[g].kind # handles[h].kind
  /\ handles[g].sel = handles[h].sel

\* C10: stopping an io watcher leaves the watcher of the other direction on the
\* same fd as it was: its descriptor, pin and activity, its pending event, and
\* whether the next poll reports it.
C10_StopLeavesSibling ==
  [][ \A h, g \in Handles :
        (Live(h) /\ Stopped(h)' /\ Live(g) /\ Sibling(h, g))
          => /\ watchers'[g] = watchers[g]
             /\ handles'[g] = handles[g]
             /\ (g \in pending') <=> (g \in pending)
             /\ (g \in FdEvents(watchers))' <=> (g \in FdEvents(watchers)) ]_vars

\* C10 witness: the writable watcher of an fd is dispatched after the readable
\* watcher of the same fd was stopped.
C10_Witness ==
  /\ Running
  /\ \E h \in Handles :
       /\ Stopped(h)
       /\ Sibling(h, Top.w)
       /\ watchers[Top.w].active /\ watchers[Top.w].root = 1 /\ watchers[Top.w].alloc

\* C11: the loop singleton has an idempotent lifecycle.  lwt_libev_init with a
\* loop present and lwt_libev_stop with none change nothing of the loop, the
\* flag or the watchers; a loop comes into being only by a successful
\* lwt_libev_init made when there was none, and goes away only by
\* lwt_libev_stop; so the loop exists exactly when the last call that had an
\* effect was a successful lwt_libev_init.
LoopState == << lwt_unix_main_loop, lwt_unix_in_blocking_section, caml_blocking,
               bs_error, watchers, handles, pending, loop_done, mn_now, clock,
               readyfds, gotsig, stack >>

C11_IdempotentLifecycle ==
  [][ /\ (lwt_unix_main_loop /\ \E created \in BOOLEAN : lwt_libev_init(created))
          => /\ UNCHANGED LoopState
             /\ init_result' = "unit"
      /\ (~lwt_unix_main_loop /\ lwt_libev_stop) => UNCHANGED vars
      /\ (~lwt_unix_main_loop /\ lwt_unix_main_loop')
          => /\ lwt_libev_init(TRUE)
             /\ init_result' = "unit"
      /\ (lwt_unix_main_loop /\ ~lwt_unix_main_loop') => lwt_libev_stop
    ]_vars

\* A loop was created, used for a watcher that has been stopped since, and
\* destroyed; the singleton is absent again.
C11_Witness ==
  /\ ~lwt_unix_main_loop
  /\ init_result = "unit"
  /\ \E h \in Handles : Stopped(h)

\* C12: lwt_libev_loop_no_wait never waits.  Its poll can always proceed, also
\* with active watchers none of which is ready (a timer not yet due, an idle
\* fd); when nothing is ready the poll queues no event, so the round ends and
\* the call returns without having invoked a callback.
C12_NoWaitNeverBlocks ==
  /\ [](AtPc("drive", { "pending0" }) /\ Top.nowait /\ pending = {}
          => ENABLED ev_loop_poll)
  /\ [](AtPc("drive", { "pending1" }) /\ pending = {}
          => ENABLED ev_loop_return)
  /\ [][ (PollStep /\ Top.nowait /\ Ready(watchers, clock) = {})
            => pending' = {} ]_vars

\* lwt_libev_loop_no_wait is about to return; an idle fd watcher and a timer not
\* yet due are active, and no callback has ever been invoked.
C12_Witness ==
  /\ AtPc("drive", { "ret" })
  /\ Len(stack) = 1
  /\ Top.nowait
  /\ \A h \in Handles : watchers[h].calls = 0
  /\ \E h \in Handles : /\ watchers[h].kind = "timer" /\ watchers[h].active
                        /\ watchers[h].at > clock
  /\ \E h \in Handles : /\ IsIo(watchers[h]) /\ watchers[h].active
                        /\ << watchers[h].sel, watchers[h].kind >> \notin readyfds

\* C13: a watcher that is ready when lwt_libev_loop is called has its callback
\* invoked exactly once by that call, with the flag false while it runs.
\* On the states of a call: when ev_loop has returned no event of the round
\* is left queued (at least once); above one lwt_libev_loop frame the callback
\* of one watcher is never active twice (at most once, as far as the call
\* stack shows it); the flag is 0 while a callback has control.
InvokedTwice(d) ==
  \E i, j \in (d + 1)..Len(stack) :
     /\ i < j
     /\ stack[i].t = "cb" /\ stack[j].t = "cb"
     /\ stack[j].pc = "running"
     /\ stack[i].w = stack[j].w

C13_ReadyInvokedExactlyOnce ==
  /\ AtPc("drive", { "check", "clear", "leave", "ret" }) => pending = {}
  /\ \A d \in 1..Len(stack) :
        (stack[d].t = "drive" /\ ~stack[d].nowait) => ~InvokedTwice(d)
  /\ Running => lwt_unix_in_blocking_section = 0

\* C14: lwt_libev_unloop acts on the round in progress only.  The call changes
\* nothing but the loop's unloop request; ev_loop forgets the request when it
\* is entered and when it returns, so a request made earlier, from a callback
\* or with no round running, is gone when a later round polls; and the poll
\* of lwt_libev_loop, whatever was requested, waits for a ready event when a
\* watcher is active and queues every ready watcher.
C14_UnloopOnlyCurrentRound ==
  [][ /\ lwt_libev_unloop
          => UNCHANGED << lwt_unix_main_loop, lwt_unix_in_blocking_section,
                          caml_blocking, bs_error, watchers, handles, pending,
                          mn_now, clock, readyfds, gotsig, stack, init_result >>
      /\ (AtPc("drive", { "ev_loop" }) /\ stack' = SetTopPc("pending0"))
          => loop_done' = "EVUNLOOP_CANCEL"
      /\ (AtPc("drive", { "pending1" }) /\ stack' = SetTopPc(AfterEvLoop))
          => loop_done' = "EVUNLOOP_CANCEL"
      /\ (PollStep /\ ~Top.nowait)
          => /\ activecnt(watchers) = 0 \/ pending' # {}
             /\ pending' = Ready(watchers, clock)
    ]_vars

\* lwt_libev_loop has been called while a request of an earlier
\* lwt_libev_unloop is still set and a watcher is ready.
C14_Witness ==
  /\ AtPc("drive", { "ev_loop" })
  /\ Len(stack) = 1
  /\ ~Top.nowait
  /\ loop_done = "EVUNLOOP_ONE"
  /\ Ready(watchers, clock) # {}

\* C15: lwt_libev_unloop called from a callback while other watchers of the
\* round are queued leaves them queued; a queued event goes away only by
\* being dispatched or by the stop of its watcher, ev_loop does not return
\* with an event queued, and after the dispatches the round returns without
\* polling again.
Dispatch(h) ==
  /\ AtPc("drive", { "pending0", "pending1" })
  /\ stack' = Append(stack, Frame("cb", HandlerEntry, h, FALSE))

C15_UnloopFinishesBatch ==
  [][ /\ lwt_libev_unloop => pending' = pending
      /\ \A h \in Handles :
            (h \in pending /\ h \notin pending') => (Dispatch(h) \/ Stopped(h)')
      /\ (AtPc("drive", { "pending1" }) /\ stack' = SetTopPc(AfterEvLoop))
          => pending = {}
      /\ (AtPc("drive", { "pending1" }) /\ stack' # stack)
          => \/ stack' = SetTopPc(AfterEvLoop)
             \/ \E h \in pending : Dispatch(h)
    ]_vars

\* In a round of lwt_libev_loop an earlier callback of the batch has called
\* lwt_libev_unloop, and the trampoline of another watcher of the batch is
\* about to invoke its callback.
C15_Witness ==
  /\ AtPc("cb", { "call" })
  /\ Len(stack) = 2
  /\ stack[1].pc = "pending1"
  /\ ~stack[1].nowait
  /\ loop_done = "EVUNLOOP_ONE"

\* C16: when ev_default_loop returns no loop, lwt_libev_init ends in Failure
\* and leaves nothing behind: the singleton is still absent, the flag, the
\* blocking section and the watchers are as before, and a later
\* lwt_libev_init tries the creation again and can succeed.
C16_FailedInitLeavesNothing ==
  /\ [][ (~lwt_unix_main_loop /\ lwt_libev_init(FALSE))
            => /\ init_result' = "Failure"
               /\ UNCHANGED LoopState ]_vars
  /\ []((~lwt_unix_main_loop /\ init_result = "Failure" /\ CanCall)
          => ENABLED (lwt_libev_init(TRUE) /\ lwt_unix_main_loop'))

\* The creation of a loop has failed, after an earlier loop was used and
\* destroyed.
C16_Witness ==
  /\ ~lwt_unix_main_loop
  /\ init_result = "Failure"
  /\ \E h \in Handles : Stopped(h)

\* C17: a callback runs to completion before any other callback is invoked,
\* whatever it does meanwhile: at most one callback has been invoked and has
\* not yet returned.
C17_CallbacksRunToCompletion ==
  Cardinality({ i \in 1..Len(stack) : stack[i].t = "cb" /\ stack[i].pc = "running" }) <= 1

\* C18: a drive call dispatches one batch: only watchers queued by the poll of
\* its own round, and nothing is queued except by a poll, so a watcher that
\* becomes ready or is registered during the dispatch waits for a later call.
C18_OneBatchPerCall ==
  [][ /\ \A h \in Handles : Dispatch(h) => Top.pc = "pending1"
      /\ (pending' \subseteq pending) \/ PollStep
    ]_vars

\* C19: after its stop a watcher is never dispatched: no event of a stopped
\* watcher is queued, also when the stop came from another watcher's callback
\* while the event was queued; and a trampoline that has yet to read
\* watcher->data and to invoke the callback belongs to a live watcher whose
\* descriptor is allocated.
C19_StoppedNeverDispatched ==
  /\ \A h \in Handles : Stopped(h) => h \notin pending
  /\ \A i \in 1..Len(stack) :
        (stack[i].t = "cb" /\ stack[i].pc # "running")
           => /\ Live(stack[i].w)
              /\ watchers[stack[i].w].alloc

\* A round has ended in which a watcher was stopped by another watcher's
\* callback while its own event was queued.
C19_Witness ==
  /\ AtPc("drive", { "ret" })
  /\ Len(stack) = 1
  /\ \E h \in Handles : handles[h].state = "unqueued"

\* C20: statement by statement, the flag is 1 only while the runtime is
\* inside its blocking section: caml_enter_blocking_section comes before the
\* flag is set, and the flag is cleared before caml_leave_blocking_section.
C20_FlagImpliesBlockingSection ==
  lwt_unix_in_blocking_section = 1 => caml_blocking

\* A trampoline has cleared the flag and is about to leave the blocking
\* section.
C20_Witness ==
  /\ AtPc("cb", { "leave" })
  /\ lwt_unix_in_blocking_section = 0
  /\ caml_blocking

====
